---- MODULE Spec2Model ----
(***************************************************************************)
(* vgraph: breadth_first_search, a_star_search, path_length and back_track *)
(* of src/src/lib.rs, over a caller-supplied VGraph (out_edges, dist).     *)
(*                                                                         *)
(* One behaviour is one call of one of the three public functions.  The    *)
(* graph, the start node, the goal and the heuristic are the call's        *)
(* arguments, drawn in Init; the remaining variables are the locals of     *)
(* the running function.                                                   *)
(***************************************************************************)
EXTENDS Integers, Sequences, FiniteSets, TLC

\* ---------------------------------------------------------------- bounds
NumNodes == 3    \* nodes are 1..NumNodes
MaxEdges == 3    \* a graph has at most this many edges
MaxDist  == 1    \* edge costs and heuristic values are 0..MaxDist
MaxLen   == 3    \* path_length is called on paths of at most this many nodes

\* ------------------------------------------------------------- constants
DefaultDist == 1 \* what dist answers for a pair that is no edge (tests::Ex::dist)

Nodes == 1..NumNodes
Dists == 0..MaxDist
NoNode == 0       \* HashMap::get(..) == None for a node-valued map
NoDist == -1      \* HashMap::get(..) == None for a distance-valued map, absent priority

VARIABLES
    alg,              \* which public function this behaviour calls
    g,                \* the VGraph: [out_edges : Nodes -> Seq(Nodes), dist : Nodes \X Nodes -> Nat]
    start,            \* argument start
    end,              \* argument end of breadth_first_search
    is_end,           \* argument is_end of a_star_search, as the set of nodes it accepts
    heuristic,        \* argument heuristic of a_star_search
    to_explore,       \* breadth_first_search: the VecDeque
    to_explore_pq,    \* a_star_search: the PriorityQueue, node -> f (NoDist when absent)
    prev,             \* HashMap<Node, Node>, NoNode when absent
    dist_from_start,  \* HashMap<Node, Dist>, NoDist when absent
    cur,              \* the node popped by the while loop
    pending,          \* what the `for next in g.out_edges(cur)` iterator has left
    bt_cur,           \* back_track: cur
    path,             \* back_track: path (before the reverse); path_length: its argument
    result,           \* <<"Pending">>, <<"None">>, <<"Some", path>>, <<"Dist", d>>
    pc,               \* "while", "for", "back_track", "path_length", "done"
    removed,          \* history: the nodes popped from the open set so far
    out_edges_calls,  \* history: number of g.out_edges calls
    dist_calls,       \* history: number of g.dist calls
    panicked          \* history: a panic!/expect fired

vars == <<alg, g, start, end, is_end, heuristic, to_explore, to_explore_pq, prev,
          dist_from_start, cur, pending, bt_cur, path, result, pc, removed,
          out_edges_calls, dist_calls, panicked>>

args == <<alg, g, start, end, is_end, heuristic>>

\* ------------------------------------------------------------ the inputs
RECURSIVE SortedSeq(_)
SortedSeq(S) ==
    IF S = {} THEN <<>>
    ELSE LET m == CHOOSE x \in S : \A y \in S : x <= y
         IN  <<m>> \o SortedSeq(S \ {m})

Pairs == Nodes \X Nodes

EdgeSets == {E \in SUBSET Pairs : Cardinality(E) <= MaxEdges}

\* The graphs with edge set E: successors in ascending order, a cost per edge.
GraphsOf(E) ==
    {[out_edges |-> [n \in Nodes |-> SortedSeq({m \in Nodes : <<n, m>> \in E})],
      dist      |-> [p \in Pairs |-> IF p \in E THEN c[p] ELSE DefaultDist]] :
       c \in [E -> Dists]}

\* Unweighted use (breadth_first_search never calls dist): every cost DefaultDist.
UnitGraphOf(E) ==
    [out_edges |-> [n \in Nodes |-> SortedSeq({m \in Nodes : <<n, m>> \in E})],
     dist      |-> [p \in Pairs |-> DefaultDist]]

\* A graph whose dist depends on the source node alone (as tests::Cycles::dist does),
\* every node a successor of every node: any sequence of nodes is a path of it.
SourceCostGraph(w) ==
    [out_edges |-> [n \in Nodes |-> SortedSeq(Nodes)],
     dist      |-> [p \in Pairs |-> w[p[1]]]]

SeqsUpTo(S, n) == UNION {[1..k -> S] : k \in 0..n}

\* ------------------------------------------------------------- back_track
\* Mutant: the path.reverse() is forgotten.
NotReversed(s) == s

\* `path.reverse()`
Reverse(s) == [i \in 1..Len(s) |-> s[Len(s) + 1 - i]]

\* ------------------------------------------------------------ path_length
\* Mutant: slice::chunks(n) in place of windows(n): sub-slices that do not overlap.
Chunks(s, n) ==
    [i \in 1..((Len(s) + n - 1) \div n) |->
        SubSeq(s, (i - 1) * n + 1, IF i * n <= Len(s) THEN i * n ELSE Len(s))]

\* slice::windows(2): every overlapping sub-slice of length n, in order.
Windows(s, n) ==
    IF Len(s) < n THEN <<>>
    ELSE [i \in 1..(Len(s) - n + 1) |-> SubSeq(s, i, i + n - 1)]

\* The for loop of path_length over the windows ws, from the accumulator acc.
RECURSIVE PathLengthLoop(_, _, _)
PathLengthLoop(gr, ws, acc) ==
    IF ws = <<>> THEN acc
    ELSE LET window == Head(ws)
         IN  IF Len(window) = 2
             THEN PathLengthLoop(gr, Tail(ws),
                      [distance |-> acc.distance + gr.dist[<<window[1], window[2]>>],
                       calls    |-> acc.calls + 1,
                       panic    |-> acc.panic])
             ELSE [distance |-> acc.distance, calls |-> acc.calls, panic |-> TRUE]

path_length(gr, p) ==
    PathLengthLoop(gr, Windows(p, 2), [distance |-> 0, calls |-> 0, panic |-> FALSE])

\* ---------------------------------------------------------- PriorityQueue
\* PriorityQueue::push_increase(item, Reverse(f)): insert, or raise the priority;
\* Reverse(f) is greater exactly when f is smaller.
push_increase(pq, item, f) ==
    IF pq[item] = NoDist \/ f < pq[item] THEN [pq EXCEPT ![item] = f] ELSE pq

\* Mutant: the Reverse(..) around the priority is forgotten: pop() gives greatest f.
pop_items_greatest(pq) ==
    {n \in Nodes : pq[n] # NoDist /\ \A m \in Nodes : pq[m] # NoDist => pq[n] >= pq[m]}

\* PriorityQueue::pop(): an item of greatest priority Reverse(f), that is of least f.
\* Which of several items of equal priority comes out is the heap's business.
pop_items(pq) ==
    {n \in Nodes : pq[n] # NoDist /\ \A m \in Nodes : pq[m] # NoDist => pq[n] <= pq[m]}

\* ------------------------------------------------------------------ Init
InitLocals ==
    /\ prev = [n \in Nodes |-> NoNode]
    /\ cur = NoNode
    /\ pending = <<>>
    /\ bt_cur = NoNode
    /\ result = <<"Pending">>
    /\ removed = {}
    /\ out_edges_calls = 0
    /\ dist_calls = 0
    /\ panicked = FALSE

InitBFS ==
    /\ alg = "breadth_first_search"
    /\ \E E \in EdgeSets : g = UnitGraphOf(E)
    /\ start \in Nodes
    /\ end \in Nodes
    /\ is_end = {}
    /\ heuristic = [n \in Nodes |-> 0]
    /\ to_explore = <<start>>
    /\ to_explore_pq = [n \in Nodes |-> NoDist]
    /\ dist_from_start = [n \in Nodes |-> NoDist]
    /\ path = <<>>
    /\ pc = "while"
    /\ InitLocals

InitAStar ==
    /\ alg = "a_star_search"
    /\ \E E \in EdgeSets : g \in GraphsOf(E)
    /\ start \in Nodes
    /\ end = NoNode
    /\ is_end \in SUBSET Nodes
    /\ heuristic \in [Nodes -> Dists]
    /\ to_explore = <<>>
    /\ to_explore_pq = push_increase([n \in Nodes |-> NoDist], start, heuristic[start])
    /\ dist_from_start = [n \in Nodes |-> IF n = start THEN 0 ELSE NoDist]
    /\ path = <<>>
    /\ pc = "while"
    /\ InitLocals

InitPathLength ==
    /\ alg = "path_length"
    /\ \E w \in [Nodes -> Dists] : g = SourceCostGraph(w)
    /\ start = NoNode
    /\ end = NoNode
    /\ is_end = {}
    /\ heuristic = [n \in Nodes |-> 0]
    /\ to_explore = <<>>
    /\ to_explore_pq = [n \in Nodes |-> NoDist]
    /\ dist_from_start = [n \in Nodes |-> NoDist]
    /\ path \in SeqsUpTo(Nodes, MaxLen)
    /\ pc = "path_length"
    /\ InitLocals

Init == InitBFS \/ InitAStar \/ InitPathLength

\* -------------------------------------------------- breadth_first_search
\* `for next in g.out_edges(cur)` starts: the iterator holds the successors.
EnterFor(n) ==
    /\ pending' = g.out_edges[n]
    /\ out_edges_calls' = out_edges_calls + 1
    /\ pc' = IF g.out_edges[n] = <<>> THEN "while" ELSE "for"

\* back_track(&prev, goal) is entered.
EnterBackTrack(goal) ==
    /\ bt_cur' = goal
    /\ path' = <<>>
    /\ pc' = "back_track"

\* Mutant: the goal test is applied to discovered nodes only, never to start.
bfs_at_end_discovered(n, e) == n = e /\ prev[n] # NoNode

\* Mutant: the popped node is compared with start, not with end.
bfs_at_start(n, e) == n = start

\* `if cur == end`
bfs_at_end(n, e) == n = e

\* `if !prev.contains_key(&next)`
not_explored(pv, next) == pv[next] = NoNode

\* while let Some(cur) = to_explore.pop_front() { if cur == end { return ... } for ... }
BfsPop ==
    /\ alg = "breadth_first_search" /\ pc = "while"
    /\ to_explore # <<>>
    /\ cur' = Head(to_explore)
    /\ to_explore' = Tail(to_explore)
    /\ IF bfs_at_end(Head(to_explore), end)
       THEN EnterBackTrack(end) /\ UNCHANGED <<pending, out_edges_calls>>
       ELSE EnterFor(Head(to_explore)) /\ UNCHANGED <<bt_cur, path>>
    /\ UNCHANGED <<args, to_explore_pq, prev, dist_from_start, result, removed,
                   dist_calls, panicked>>

\* One iteration of the for loop: if !prev.contains_key(&next) { insert; push_back }
BfsVisit ==
    /\ alg = "breadth_first_search" /\ pc = "for"
    /\ pending # <<>>
    /\ LET next == Head(pending)
       IN  IF not_explored(prev, next)
           THEN /\ prev' = [prev EXCEPT ![next] = cur]
                /\ to_explore' = Append(to_explore, next)
           ELSE UNCHANGED <<prev, to_explore>>
    /\ pending' = Tail(pending)
    /\ pc' = IF Tail(pending) = <<>> THEN "while" ELSE "for"
    /\ UNCHANGED <<args, to_explore_pq, dist_from_start, cur, bt_cur, path, result,
                   removed, out_edges_calls, dist_calls, panicked>>

\* The while loop ends: pop_front() is None, the function returns None.
BfsNone ==
    /\ alg = "breadth_first_search" /\ pc = "while"
    /\ to_explore = <<>>
    /\ result' = <<"None">>
    /\ pc' = "done"
    /\ UNCHANGED <<args, to_explore, to_explore_pq, prev, dist_from_start, cur, pending,
                   bt_cur, path, removed, out_edges_calls, dist_calls, panicked>>

\* ------------------------------------------------------------- back_track
\* while let Some(next) = prev.get(&cur) { path.push(cur); cur = *next; }
\* A walk that has pushed more nodes than there are is inside a cycle of prev and
\* never leaves the loop; the model stops following it there.
BackTrackStep ==
    /\ pc = "back_track"
    /\ prev[bt_cur] # NoNode
    /\ Len(path) <= NumNodes
    /\ path' = Append(path, bt_cur)
    /\ bt_cur' = prev[bt_cur]
    /\ UNCHANGED <<args, to_explore, to_explore_pq, prev, dist_from_start, cur, pending,
                   result, pc, removed, out_edges_calls, dist_calls, panicked>>

\* path.push(cur); path.reverse(); path -- and the caller returns Some(path).
BackTrackReturn ==
    /\ pc = "back_track"
    /\ prev[bt_cur] = NoNode
    /\ path' = Append(path, bt_cur)
    /\ result' = <<"Some", Reverse(Append(path, bt_cur))>>
    /\ pc' = "done"
    /\ UNCHANGED <<args, to_explore, to_explore_pq, prev, dist_from_start, cur, pending,
                   bt_cur, removed, out_edges_calls, dist_calls, panicked>>

\* ----------------------------------------------------------- a_star_search
\* `if is_end(cur)`
a_star_at_end(n, accepted) == n \in accepted

\* while let Some((cur, _priority)) = to_explore.pop() { if is_end(cur) { return ... } for ... }
AStarPop ==
    /\ alg = "a_star_search" /\ pc = "while"
    /\ \E n \in pop_items(to_explore_pq) :
          /\ cur' = n
          /\ to_explore_pq' = [to_explore_pq EXCEPT ![n] = NoDist]
          /\ removed' = removed \cup {n}
          /\ IF a_star_at_end(n, is_end)
             THEN EnterBackTrack(n) /\ UNCHANGED <<pending, out_edges_calls>>
             ELSE EnterFor(n) /\ UNCHANGED <<bt_cur, path>>
    /\ UNCHANGED <<args, to_explore, prev, dist_from_start, result, dist_calls, panicked>>

\* `let start_to_next = *cur_distance + g.dist(cur, next);`
start_to_next_of(cur_distance, edge_dist) == cur_distance + edge_dist

\* `let h_dist = start_to_next + heuristic(next);`
h_dist_of(start_to_next, h) == start_to_next + h

\* Mutant: `>` for `>=`: a path that is merely as good is not skipped.
skip_next_strict(best_start_to_next, start_to_next) ==
    best_start_to_next # NoDist /\ start_to_next > best_start_to_next

\* Mutant: every node that has a distance is skipped: no path is ever improved.
skip_if_seen(best_start_to_next, start_to_next) == best_start_to_next # NoDist

\* `if start_to_next >= *best_start_to_next { continue; }`
skip_next(best_start_to_next, start_to_next) ==
    best_start_to_next # NoDist /\ start_to_next >= best_start_to_next

\* The condition of the second `if`: map(|b| start_to_next < b).unwrap_or(true)
is_better(current_best_start_to_next, start_to_next) ==
    IF current_best_start_to_next = NoDist THEN TRUE
    ELSE start_to_next < current_best_start_to_next

\* One iteration of the for loop of a_star_search.
AStarVisit ==
    /\ alg = "a_star_search" /\ pc = "for"
    /\ pending # <<>>
    /\ LET next == Head(pending)
           cur_distance == dist_from_start[cur]
           start_to_next == start_to_next_of(cur_distance, g.dist[<<cur, next>>])
           h_dist == h_dist_of(start_to_next, heuristic[next])
       IN  IF cur_distance = NoDist
           THEN \* .expect(..) panics
                /\ panicked' = TRUE
                /\ pc' = "done"
                /\ UNCHANGED <<to_explore_pq, prev, dist_from_start, pending, dist_calls>>
           ELSE /\ dist_calls' = dist_calls + 1
                /\ pending' = Tail(pending)
                /\ pc' = IF Tail(pending) = <<>> THEN "while" ELSE "for"
                /\ panicked' = panicked
                /\ IF skip_next(dist_from_start[next], start_to_next)
                   THEN UNCHANGED <<to_explore_pq, prev, dist_from_start>>
                   ELSE /\ to_explore_pq' = push_increase(to_explore_pq, next, h_dist)
                        /\ IF is_better(dist_from_start[next], start_to_next)
                           THEN /\ prev' = [prev EXCEPT ![next] = cur]
                                /\ dist_from_start' =
                                       [dist_from_start EXCEPT ![next] = start_to_next]
                           ELSE UNCHANGED <<prev, dist_from_start>>
    /\ UNCHANGED <<args, to_explore, cur, bt_cur, path, result, removed, out_edges_calls>>

\* The while loop ends: pop() is None, the function returns None.
AStarNone ==
    /\ alg = "a_star_search" /\ pc = "while"
    /\ pop_items(to_explore_pq) = {}
    /\ result' = <<"None">>
    /\ pc' = "done"
    /\ UNCHANGED <<args, to_explore, to_explore_pq, prev, dist_from_start, cur, pending,
                   bt_cur, path, removed, out_edges_calls, dist_calls, panicked>>

\* ------------------------------------------------------------ path_length
PathLength ==
    /\ alg = "path_length" /\ pc = "path_length"
    /\ LET r == path_length(g, path)
       IN  /\ result' = <<"Dist", r.distance>>
           /\ dist_calls' = r.calls
           /\ panicked' = r.panic
    /\ pc' = "done"
    /\ UNCHANGED <<args, to_explore, to_explore_pq, prev, dist_from_start, cur, pending,
                   bt_cur, path, removed, out_edges_calls>>

Next ==
    \/ BfsPop
    \/ BfsVisit
    \/ BfsNone
    \/ BackTrackStep
    \/ BackTrackReturn
    \/ AStarPop
    \/ AStarVisit
    \/ AStarNone
    \/ PathLength

Spec == Init /\ [][Next]_vars

\* Every function runs to completion once called: no step is postponed for ever.
FairSpec == Spec /\ WF_vars(Next)

\* path_length alone: the specification of the claims about that pure function.
NextPathLength == PathLength

SpecPathLength == InitPathLength /\ [][NextPathLength]_vars

\* ===================================================== reference notions
\* What the claims compare the code with; none of this is used by the actions.

Edge(gr, u, v) == \E i \in DOMAIN gr.out_edges[u] : gr.out_edges[u][i] = v

Successors(gr, S) == S \cup {v \in Nodes : \E u \in S : Edge(gr, u, v)}

\* The nodes reachable from S (S included), by iterating to the fixed point.
RECURSIVE ReachableFrom(_, _)
ReachableFrom(gr, S) ==
    IF Successors(gr, S) = S THEN S ELSE ReachableFrom(gr, Successors(gr, S))

\* Brute-force hop distance: the first level k of the breadth-first levels from
\* S that holds t, NoDist when none does.
RECURSIVE Hops(_, _, _, _)
Hops(gr, S, t, k) ==
    IF t \in S THEN k
    ELSE IF Successors(gr, S) = S THEN NoDist
    ELSE Hops(gr, Successors(gr, S), t, k + 1)

MinEdges(gr, s, t) == Hops(gr, {s}, t, 0)

Min(S) == CHOOSE x \in S : \A y \in S : x <= y

\* One round of Bellman-Ford towards the goals: d[u] is the least cost found so
\* far of a walk from u to a goal (NoDist: none found); allow one more first edge.
Relaxed(gr, d) ==
    LET via(u) == {gr.dist[<<u, v>>] + d[v] :
                      v \in {x \in Nodes : d[x] # NoDist /\ Edge(gr, u, x)}}
        cand(u) == via(u) \cup (IF d[u] = NoDist THEN {} ELSE {d[u]})
    IN  [u \in Nodes |-> IF cand(u) = {} THEN NoDist ELSE Min(cand(u))]

\* k rounds: the least cost of a walk of at most k more edges.
RECURSIVE WalkCost(_, _, _)
WalkCost(gr, d, k) == IF k = 0 THEN d ELSE WalkCost(gr, Relaxed(gr, d), k - 1)

\* The least cost of a path from each node to a node of goals (costs are
\* non-negative, so a cheapest walk needs at most NumNodes - 1 edges).
CostToGoal(gr, goals) ==
    WalkCost(gr, [u \in Nodes |-> IF u \in goals THEN 0 ELSE NoDist], NumNodes - 1)

\* The least cost from s to a node of goals, NoDist when none is reachable.
GoalCost(gr, s, goals) == CostToGoal(gr, goals)[s]

\* A textbook Dijkstra, written independently of a_star_search: settle the
\* unsettled node of least tentative distance, relax its out-edges, repeat.
RECURSIVE Dijkstra(_, _, _)
Dijkstra(gr, d, settled) ==
    LET open == {v \in Nodes \ settled : d[v] # NoDist}
    IN  IF open = {} THEN d
        ELSE LET u == CHOOSE x \in open : \A y \in open : d[x] <= d[y]
                 relaxed(v) ==
                     IF v \notin settled /\ v # u /\ Edge(gr, u, v)
                        /\ (d[v] = NoDist \/ d[u] + gr.dist[<<u, v>>] < d[v])
                     THEN d[u] + gr.dist[<<u, v>>]
                     ELSE d[v]
             IN  Dijkstra(gr, [v \in Nodes |-> relaxed(v)], settled \cup {u})

\* The reference answer: the Dijkstra distance of the nearest goal, NoDist when
\* Dijkstra reaches no goal.
DijkstraGoalCost(gr, s, goals) ==
    LET d == Dijkstra(gr, [v \in Nodes |-> IF v = s THEN 0 ELSE NoDist], {})
        costs == {d[t] : t \in {x \in goals : d[x] # NoDist}}
    IN  IF costs = {} THEN NoDist ELSE Min(costs)

\* h(u) <= dist(u, v) + h(v) for every edge.
Consistent(gr, h) ==
    \A u \in Nodes, v \in Nodes : Edge(gr, u, v) => h[u] <= gr.dist[<<u, v>>] + h[v]

\* h never overestimates the cost that remains to the nearest goal.
Admissible(gr, goals, h) ==
    LET c == CostToGoal(gr, goals)
    IN  \A n \in Nodes : c[n] # NoDist => h[n] <= c[n]

\* The sum of dist over the consecutive pairs of p, from the right.
RECURSIVE SumDist(_, _)
SumDist(gr, p) ==
    IF Len(p) < 2 THEN 0
    ELSE gr.dist[<<p[1], p[2]>>] + SumDist(gr, Tail(p))

\* p is a path of the graph from s to t that repeats no node.
WellFormed(gr, p, s, t) ==
    /\ Len(p) >= 1
    /\ p[1] = s
    /\ p[Len(p)] = t
    /\ \A i \in 1..(Len(p) - 1) : Edge(gr, p[i], p[i + 1])
    /\ \A i \in 1..Len(p), j \in 1..Len(p) : p[i] = p[j] => i = j

\* Where the walk of back_track from n ends within k steps: the node without a
\* predecessor entry it reaches, NoNode when it reaches none.
RECURSIVE WalkEnd(_, _, _)
WalkEnd(pv, n, k) ==
    IF pv[n] = NoNode THEN n
    ELSE IF k = 0 THEN NoNode
    ELSE WalkEnd(pv, pv[n], k - 1)

\* Following pv from n comes back to n.
RECURSIVE Returns(_, _, _, _)
Returns(pv, n, at, k) ==
    IF pv[at] = NoNode \/ k = 0 THEN FALSE
    ELSE pv[at] = n \/ Returns(pv, n, pv[at], k - 1)

Searching == alg \in {"breadth_first_search", "a_star_search"}

Goals == IF alg = "breadth_first_search" THEN {end} ELSE is_end

GoalReachable == Goals \cap ReachableFrom(g, {start}) # {}

Found == pc = "done" /\ result[1] = "Some"

ZeroHeuristic == [n \in Nodes |-> 0]

\* back_track is back at a node it has already pushed: prev does not change
\* while it runs, so it will follow the same cycle for ever.
BackTrackLoops == pc = "back_track" /\ \E i \in 1..Len(path) : path[i] = bt_cur

\* ================================================================ claims

\* C1: whenever end is reachable from start -- cycles, and cycles through start,
\* included -- breadth_first_search returns a path from start to end with the
\* least possible number of edges (so its back_track never loops).
C1_BfsReturnsShortestPath ==
    (alg = "breadth_first_search" /\ end \in ReachableFrom(g, {start})) =>
        /\ ~BackTrackLoops
        /\ pc = "done" =>
              /\ result[1] = "Some"
              /\ WellFormed(g, result[2], start, end)
              /\ Len(result[2]) - 1 = MinEdges(g, start, end)

\* C2: with an admissible and consistent heuristic, the first goal node that
\* a_star_search pops has the least cost of all reachable goal nodes, and the
\* path it returns costs exactly that, summed with dist over its pairs.
C2_AStarFirstGoalIsCheapest ==
    (alg = "a_star_search" /\ pc \in {"back_track", "done"}
        /\ Consistent(g, heuristic) /\ Admissible(g, is_end, heuristic)) =>
        /\ pc = "back_track" =>
              /\ cur \in is_end
              /\ dist_from_start[cur] = GoalCost(g, start, is_end)
        /\ Found =>
              /\ result[2][Len(result[2])] = cur
              /\ SumDist(g, result[2]) = GoalCost(g, start, is_end)
              /\ path_length(g, result[2]).distance = GoalCost(g, start, is_end)

C2_Witness ==
    /\ alg = "a_star_search" /\ Found
    /\ Consistent(g, heuristic) /\ Admissible(g, is_end, heuristic)
    /\ heuristic[start] > 0
    /\ Len(result[2]) = 3

\* C3: with the zero heuristic a_star_search returns a path whose path_length is
\* the cost a reference Dijkstra finds to the nearest goal, and returns None
\* exactly when that Dijkstra reaches no goal.
C3_ZeroHeuristicIsDijkstra ==
    (alg = "a_star_search" /\ pc = "done" /\ heuristic = ZeroHeuristic) =>
        LET ref == DijkstraGoalCost(g, start, is_end)
        IN  /\ ~panicked
            /\ (ref = NoDist) <=> (result = <<"None">>)
            /\ ref # NoDist =>
                  /\ result[1] = "Some"
                  /\ path_length(g, result[2]).distance = ref

\* The goal is found on a two-edge path although a dearer direct edge leads to it.
C3_Witness ==
    /\ alg = "a_star_search" /\ Found /\ heuristic = ZeroHeuristic
    /\ Len(result[2]) = 3
    /\ Edge(g, start, cur)
    /\ g.dist[<<start, cur>>] > path_length(g, result[2]).distance

\* C4: when no goal node is reachable from start, breadth_first_search and
\* a_star_search both come to their end and return None, cycles or not.
C4_UnreachableGoalReturnsNone ==
    (Searching /\ ~GoalReachable) ~> (pc = "done" /\ result = <<"None">>)

\* None is returned after the search went round a cycle back into start.
C4_Witness ==
    /\ Searching /\ ~GoalReachable
    /\ pc = "done" /\ result = <<"None">>
    /\ \E n \in removed \cup {m \in Nodes : prev[m] # NoNode} :
          n # start /\ Edge(g, n, start)

\* C5: when start is the goal (end = start, is_end(start)), both searches return
\* exactly [start], never call out_edges, and path_length of [start] is zero.
C5_StartIsGoal ==
    (Searching /\ start \in Goals) =>
        /\ out_edges_calls = 0
        /\ pc # "for"
        /\ pc = "done" =>
              /\ result = <<"Some", <<start>>>>
              /\ path_length(g, result[2]) = [distance |-> 0, calls |-> 0, panic |-> FALSE]

\* The search returned although start has successors it could have explored.
C5_Witness ==
    /\ Searching /\ start \in Goals /\ pc = "done"
    /\ g.out_edges[start] # <<>>
    /\ alg = "a_star_search" /\ heuristic[start] > 0

\* C6: a path returned by either search starts at start, ends at the goal,
\* follows edges of the graph and repeats no node.
C6_ReturnedPathWellFormed ==
    (Searching /\ Found) =>
        /\ result[2] # <<>>
        /\ result[2][Len(result[2])] \in Goals
        /\ WellFormed(g, result[2], start, result[2][Len(result[2])])

\* A three-node path is returned from a graph with a cycle through its nodes.
C6_Witness ==
    /\ Searching /\ Found
    /\ Len(result[2]) = 3
    /\ Edge(g, result[2][3], result[2][2])

\* C7: path_length is the sum of dist over the consecutive pairs of the path;
\* on a path of 0 or 1 nodes it is zero, with no call of dist and no panic.
C7_PathLengthIsSum ==
    (alg = "path_length" /\ pc = "done") =>
        /\ result = <<"Dist", SumDist(g, path)>>
        /\ ~panicked
        /\ Len(path) <= 1 => result = <<"Dist", 0>> /\ dist_calls = 0
        /\ Len(path) >= 2 => dist_calls = Len(path) - 1

C7_Witness ==
    /\ alg = "path_length" /\ pc = "done"
    /\ Len(path) = 3
    /\ g.dist[<<path[1], path[2]>>] # g.dist[<<path[2], path[3]>>]
    /\ result[2] > 0

\* C8: in every state of either search the predecessor map is a forest rooted at
\* start: no node is its own ancestor and start has no predecessor entry.
C8_PrevIsForest ==
    Searching =>
        /\ prev[start] = NoNode
        /\ \A n \in Nodes : ~Returns(prev, n, n, NumNodes)

\* C9: whenever a search has dequeued a goal and runs back_track on the
\* predecessor map built so far, the backward walk ends after finitely many
\* steps at a node without predecessor entry, and that node is start.
C9_BackTrackEndsAtStart ==
    (Searching /\ pc = "back_track") => WalkEnd(prev, bt_cur, NumNodes) = start

\* C10: with a consistent heuristic a node popped from the open set of
\* a_star_search is final: its dist_from_start entry never changes again, it is
\* never pushed again and so never popped a second time.
C10_RemovedIsFinal ==
    [][(alg = "a_star_search" /\ Consistent(g, heuristic)) =>
          \A n \in removed :
              /\ dist_from_start'[n] = dist_from_start[n]
              /\ to_explore_pq[n] = NoDist
              /\ to_explore_pq'[n] = NoDist]_vars

\* An edge leads back to a node popped earlier (not start), and is being relaxed.
C10_Witness ==
    /\ alg = "a_star_search" /\ Consistent(g, heuristic)
    /\ pc = "for"
    /\ Head(pending) \in removed \ {start, cur}
    /\ heuristic # ZeroHeuristic

====
